---------------------------- MODULE Spec2Model ----------------------------
(***************************************************************************)
(* The array / two-pointer exercises of                                     *)
(* src/dsa/week1_arrays_strings_two_pointers, each function as a state      *)
(* machine over its local variables: one action per loop iteration, loop    *)
(* exit and return.  Python lists are sequences; Python positions are       *)
(* 0-based, so position p of a list s is s[p + 1] (operator At).            *)
(* Then Website (src/1_llm_product/website.py) and summarize_url            *)
(* (src/wk1/1_summarize_open_ai/openai_utils.py), with the HTTP request and *)
(* the chat-completion call as an environment fixed at the start.           *)
(***************************************************************************)
EXTENDS Integers, Sequences, FiniteSets, TLC

VARIABLES
    pc,              \* position of the running call
    height,          \* argument of max_area / trap
    left,            \* left pointer (max_area, trap)
    right,           \* right pointer (max_area, trap)
    max_area_value,  \* running maximum of max_area
    left_max,        \* running maximum from the left (trap)
    right_max,       \* running maximum from the right (trap)
    water,           \* accumulated water (trap)
    nums,            \* argument of product_except_self / two_sum
    target,          \* argument of two_sum
    prefix,          \* running prefix product (product_except_self)
    suffix,          \* running suffix product (product_except_self)
    seen,            \* number -> index mapping (two_sum)
    i,               \* loop index (product_except_self, two_sum, move_zeroes)
    test_case,       \* the list the move_zeroes variants are compared on
    nums1,           \* the copy move_zeroes works on
    nums2,           \* the copy move_zeroes_swap works on
    nums3,           \* the copy move_zeroes_optimal works on
    read_pos,        \* scan position (move_zeroes variants)
    write_pos,       \* next position to write a non-zero (move_zeroes variants)
    result,          \* value returned by the function under test
    reference,       \* value returned by the cross-check implementation
    url,             \* argument of Website / summarize_url
    get_raises,      \* exception requests.get raises, or NoException
    status_raises,   \* exception raise_for_status raises, or NoException
    content,         \* the fetched page: its elements in document order
    create_raises,   \* exception chat.completions.create raises, or NoException
    completion,      \* message content of the first choice of the response
    caller,          \* who called Website: the test or summarize_url
    self,            \* attributes of the Website object under construction
    site,            \* the Website object the constructor returned
    raised,          \* the exception in flight, or NoException
    create_calls     \* keyword arguments of the calls of chat.completions.create

ptrVars == <<height, left, right, max_area_value, left_max, right_max, water>>

numVars == <<nums, target, prefix, suffix, seen>>

zeroVars == <<test_case, nums1, nums2, nums3, read_pos, write_pos>>

envVars == <<url, get_raises, status_raises, content, create_raises, completion>>

webVars == <<envVars, caller, self, site, raised, create_calls>>

vars == <<pc, ptrVars, numVars, i, zeroVars, result, reference, webVars>>

----------------------------------------------------------------------------
(* Bounds of the explored inputs *)

MaxLen == 4

MaxVal == 3

MaxNeg == 1

(* Local variables of the functions that are not running *)

EmptyDict == [k \in {} |-> 0]

numIdle == nums = <<>> /\ target = 0 /\ prefix = 1 /\ suffix = 1 /\ seen = EmptyDict

zeroIdle ==
    /\ test_case = <<>> /\ nums1 = <<>> /\ nums2 = <<>> /\ nums3 = <<>>
    /\ read_pos = 0 /\ write_pos = 0

trapIdle == left_max = 0 /\ right_max = 0 /\ water = 0

ptrIdle == height = <<>> /\ left = 0 /\ right = 0 /\ max_area_value = 0 /\ trapIdle

NoException == [type |-> "None", args |-> <<>>]

webIdle ==
    /\ url = <<>> /\ content = <<>> /\ completion = <<>>
    /\ get_raises = NoException /\ status_raises = NoException
    /\ create_raises = NoException /\ raised = NoException
    /\ caller = "test" /\ self = EmptyDict /\ site = EmptyDict
    /\ create_calls = <<>>

(* Python helpers *)

At(s, p) == s[p + 1]

Min(a, b) == IF a < b THEN a ELSE b

Max(a, b) == IF a > b THEN a ELSE b

ListsOver(S, n) == UNION {[1..k -> S] : k \in 0..n}

Heights == ListsOver(0..MaxVal, MaxLen)

Elevations == ListsOver(-MaxNeg..MaxVal, MaxLen)

IntLists == ListsOver(-MaxNeg..MaxVal, MaxLen)

----------------------------------------------------------------------------
(* container_with_most_water.py *)

\* Variant: the loop runs once more when the pointers have met
ApartOrMet(l, r) == l <= r

\* Loop condition of the two-pointer loops
Apart(l, r) == l < r

current_area(h, l, r) == (r - l) * Min(At(h, l), At(h, r))

\* Variant: the pointer at the taller line moves instead
MoveLeftTaller(h, l, r) == At(h, l) > At(h, r)

MoveLeft(h, l, r) == At(h, l) < At(h, r)

\* Variant: only the empty list is turned away
TooShortEmptyOnly(h) == Len(h) = 0

TooShortForArea(h) == Len(h) = 0 \/ Len(h) < 2

RECURSIVE BruteInner(_, _, _, _)
BruteInner(h, p, q, m) ==
    IF q >= Len(h) THEN m
    ELSE BruteInner(h, p, q + 1, Max(m, current_area(h, p, q)))

RECURSIVE BruteOuter(_, _, _)
BruteOuter(h, p, m) ==
    IF p >= Len(h) THEN m
    ELSE BruteOuter(h, p + 1, BruteInner(h, p, p + 1, m))

max_area_brute_force(h) == BruteOuter(h, 0, 0)

InitMaxArea ==
    /\ pc = "max_area"
    /\ height \in Heights
    /\ left = 0 /\ right = 0 /\ max_area_value = 0
    /\ result = 0 /\ reference = 0
    /\ trapIdle /\ numIdle /\ zeroIdle /\ i = 0 /\ webIdle

MaxAreaEnter ==
    /\ pc = "max_area"
    /\ IF TooShortForArea(height)
       THEN /\ result' = 0
            /\ pc' = "max_area_ref"
            /\ UNCHANGED <<left, right, max_area_value>>
       ELSE /\ left' = 0
            /\ right' = Len(height) - 1
            /\ max_area_value' = 0
            /\ pc' = "max_area_loop"
            /\ UNCHANGED result
    /\ UNCHANGED <<height, left_max, right_max, water, numVars, i, zeroVars,
                   reference,
                   webVars>>

MaxAreaIter ==
    /\ pc = "max_area_loop"
    /\ Apart(left, right)
    /\ max_area_value' = Max(max_area_value, current_area(height, left, right))
    /\ IF MoveLeft(height, left, right)
       THEN left' = left + 1 /\ UNCHANGED right
       ELSE right' = right - 1 /\ UNCHANGED left
    /\ UNCHANGED <<pc, height, left_max, right_max, water, numVars, i,
                   zeroVars, result, reference,
                   webVars>>

MaxAreaReturn ==
    /\ pc = "max_area_loop"
    /\ ~Apart(left, right)
    /\ result' = max_area_value
    /\ pc' = "max_area_ref"
    /\ UNCHANGED <<ptrVars, numVars, i, zeroVars, reference, webVars>>

MaxAreaBruteForce ==
    /\ pc = "max_area_ref"
    /\ reference' = max_area_brute_force(height)
    /\ pc' = "done"
    /\ UNCHANGED <<ptrVars, numVars, i, zeroVars, result, webVars>>

NextMaxArea ==
    \/ MaxAreaEnter
    \/ MaxAreaIter
    \/ MaxAreaReturn
    \/ MaxAreaBruteForce

SpecMaxArea == InitMaxArea /\ [][NextMaxArea]_vars

----------------------------------------------------------------------------
(* C1: for every list of non-negative heights of length >= 2, the value     *)
(* max_area returns is the largest (j - i) * min(height[i], height[j]) over *)
(* all pairs of positions i < j, and equals what max_area_brute_force       *)
(* returns for the same list.                                               *)

Pairs(h) == {p \in (0..Len(h) - 1) \X (0..Len(h) - 1) : p[1] < p[2]}

IsMaxPairArea(h, v) ==
    /\ \E p \in Pairs(h) : v = current_area(h, p[1], p[2])
    /\ \A p \in Pairs(h) : v >= current_area(h, p[1], p[2])

MaxAreaEqualsBruteForce ==
    (pc = "done" /\ Len(height) >= 2) =>
        /\ result = reference
        /\ IsMaxPairArea(height, result)

MaxAreaGreedyMattersWitness ==
    /\ pc = "done"
    /\ Len(height) = 4
    /\ result = 4
    /\ result > current_area(height, 0, 3)
    /\ left = right

----------------------------------------------------------------------------
(* trapping_rain_water.py *)

\* Variant: the side with the larger running maximum is processed instead
ProcessLeftLarger(lm, rm) == lm > rm

ProcessLeft(lm, rm) == lm < rm

\* Variant: min in place of max
RunningMin(m, x) == Min(m, x)

RunningMax(m, x) == Max(m, x)

\* Variant: the operands of the subtraction exchanged
AmountReversed(m, x) == x - m

Amount(m, x) == m - x

\* Variant: the guard of max_area in place of trap's
TooShortToTrapTwo(h) == Len(h) = 0 \/ Len(h) < 2

TooShortToTrap(h) == Len(h) = 0 \/ Len(h) < 3

RECURSIVE BuildLeftMax(_, _, _)
BuildLeftMax(h, p, lm) ==
    IF p >= Len(h) THEN lm
    ELSE BuildLeftMax(h, p + 1,
                      [lm EXCEPT ![p + 1] = Max(At(lm, p - 1), At(h, p))])

RECURSIVE BuildRightMax(_, _, _)
BuildRightMax(h, p, rm) ==
    IF p < 0 THEN rm
    ELSE BuildRightMax(h, p - 1,
                       [rm EXCEPT ![p + 1] = Max(At(rm, p + 1), At(h, p))])

RECURSIVE SumTrapped(_, _, _, _, _)
SumTrapped(h, lm, rm, p, w) ==
    IF p >= Len(h) THEN w
    ELSE SumTrapped(h, lm, rm, p + 1, w + Min(At(lm, p), At(rm, p)) - At(h, p))

trap_dp(h) ==
    IF Len(h) = 0 \/ Len(h) < 3 THEN 0
    ELSE LET n == Len(h)
             zeros == [k \in 1..n |-> 0]
             lm == BuildLeftMax(h, 1, [zeros EXCEPT ![1] = At(h, 0)])
             rm == BuildRightMax(h, n - 2, [zeros EXCEPT ![n] = At(h, n - 1)])
         IN  SumTrapped(h, lm, rm, 0, 0)

InitTrap ==
    /\ pc = "trap"
    /\ height \in Elevations
    /\ left = 0 /\ right = 0 /\ max_area_value = 0
    /\ result = 0 /\ reference = 0
    /\ trapIdle /\ numIdle /\ zeroIdle /\ i = 0 /\ webIdle

TrapEnter ==
    /\ pc = "trap"
    /\ IF TooShortToTrap(height)
       THEN /\ result' = 0
            /\ pc' = "trap_ref"
            /\ UNCHANGED <<left, right, left_max, right_max, water>>
       ELSE /\ left' = 0
            /\ right' = Len(height) - 1
            /\ left_max' = 0
            /\ right_max' = 0
            /\ water' = 0
            /\ pc' = "trap_loop"
            /\ UNCHANGED result
    /\ UNCHANGED <<height, max_area_value, numVars, i, zeroVars, reference,
                   webVars>>

TrapIter ==
    /\ pc = "trap_loop"
    /\ Apart(left, right)
    /\ left_max' = RunningMax(left_max, At(height, left))
    /\ right_max' = RunningMax(right_max, At(height, right))
    /\ IF ProcessLeft(left_max', right_max')
       THEN /\ water' = water + Amount(left_max', At(height, left))
            /\ left' = left + 1
            /\ UNCHANGED right
       ELSE /\ water' = water + Amount(right_max', At(height, right))
            /\ right' = right - 1
            /\ UNCHANGED left
    /\ UNCHANGED <<pc, height, max_area_value, numVars, i, zeroVars, result,
                   reference,
                   webVars>>

TrapReturn ==
    /\ pc = "trap_loop"
    /\ ~Apart(left, right)
    /\ result' = water
    /\ pc' = "trap_ref"
    /\ UNCHANGED <<ptrVars, numVars, i, zeroVars, reference, webVars>>

TrapDp ==
    /\ pc = "trap_ref"
    /\ reference' = trap_dp(height)
    /\ pc' = "done"
    /\ UNCHANGED <<ptrVars, numVars, i, zeroVars, result, webVars>>

NextTrap ==
    \/ TrapEnter
    \/ TrapIter
    \/ TrapReturn
    \/ TrapDp

SpecTrap == InitTrap /\ [][NextTrap]_vars

----------------------------------------------------------------------------
(* C2: for every list of non-negative heights, of any length, trap returns  *)
(* what trap_dp returns, and that value is the sum over all positions i of  *)
(* min(max(height[0..i]), max(height[i..n-1])) - height[i].                 *)

SetMax(S) == CHOOSE x \in S : \A y \in S : y <= x

TrappedAt(h, p) ==
    Min(SetMax({At(h, k) : k \in 0..p}),
        SetMax({At(h, k) : k \in p..Len(h) - 1})) - At(h, p)

RECURSIVE TrappedUpTo(_, _)
TrappedUpTo(h, n) == IF n = 0 THEN 0 ELSE TrappedUpTo(h, n - 1) + TrappedAt(h, n - 1)

NonNegative(h) == \A k \in 1..Len(h) : h[k] >= 0

TrapEqualsTrapDp ==
    (pc = "done" /\ NonNegative(height)) =>
        /\ result = reference
        /\ reference = TrappedUpTo(height, Len(height))

TrapValleyWitness ==
    /\ pc = "done"
    /\ NonNegative(height)
    /\ Len(height) = 4
    /\ left = right
    /\ result = 3
    /\ reference = 3

----------------------------------------------------------------------------
(* C8 as stated: for every list of integers, negative heights included,     *)
(* trap and trap_dp return identical results.                               *)

TrapEqualsTrapDpAnyIntegers == pc = "done" => result = reference

(* C8: for every list of integers shorter than three elements, and for      *)
(* every list of integers whose first and last elements are non-negative    *)
(* (elements in between may be negative), trap and trap_dp return identical *)
(* results.                                                                 *)

EndsNonNegative(h) == Len(h) < 3 \/ (At(h, 0) >= 0 /\ At(h, Len(h) - 1) >= 0)

TrapEqualsTrapDpEndsNonNegative ==
    (pc = "done" /\ EndsNonNegative(height)) => result = reference

TrapNegativeInteriorWitness ==
    /\ pc = "done"
    /\ Len(height) >= 3
    /\ EndsNonNegative(height)
    /\ \E k \in 2..Len(height) - 1 : height[k] < 0
    /\ result > 0
    /\ result = reference

----------------------------------------------------------------------------
(* product_of_array_except_self.py *)

\* Variant: prefix multiplied in before result[i] is written
ForwardEntryInclusive(pre, x) == pre * x

ForwardEntry(pre, x) == pre

\* Variant: += in place of *=
BackwardEntrySum(r, suf) == r + suf

BackwardEntry(r, suf) == r * suf

\* Variant: second pass starting one position early
BackwardStartShort(n) == n - 2

BackwardStart(n) == n - 1

RECURSIVE BuildPrefix(_, _, _)
BuildPrefix(ns, p, pre) ==
    IF p >= Len(ns) THEN pre
    ELSE BuildPrefix(ns, p + 1,
                     [pre EXCEPT ![p + 1] = At(pre, p - 1) * At(ns, p - 1)])

RECURSIVE BuildSuffix(_, _, _)
BuildSuffix(ns, p, suf) ==
    IF p < 0 THEN suf
    ELSE BuildSuffix(ns, p - 1,
                     [suf EXCEPT ![p + 1] = At(suf, p + 1) * At(ns, p + 1)])

product_except_self_with_arrays(ns) ==
    LET n == Len(ns)
        ones == [k \in 1..n |-> 1]
        pre == BuildPrefix(ns, 1, ones)
        suf == BuildSuffix(ns, n - 2, ones)
    IN  [k \in 1..n |-> pre[k] * suf[k]]

InitProduct ==
    /\ pc = "product_except_self"
    /\ nums \in IntLists
    /\ target = 0 /\ prefix = 1 /\ suffix = 1 /\ seen = EmptyDict /\ i = 0
    /\ result = <<>> /\ reference = <<>>
    /\ ptrIdle /\ zeroIdle /\ webIdle

\* Variant: result is the list nums itself, a store into result is seen in nums
InputAfterAliasedStore(input, stored) == stored

\* result = [1] * n is a list of its own: a store into result leaves nums alone
InputAfterStore(input, stored) == input

ProductEnter ==
    /\ pc = "product_except_self"
    /\ result' = [k \in 1..Len(nums) |-> 1]
    /\ prefix' = 1
    /\ i' = 0
    /\ pc' = "product_forward"
    /\ UNCHANGED <<ptrVars, nums, target, suffix, seen, zeroVars, reference,
                   webVars>>

ProductForward ==
    /\ pc = "product_forward"
    /\ i < Len(nums)
    /\ result' = [result EXCEPT ![i + 1] = ForwardEntry(prefix, At(nums, i))]
    /\ prefix' = prefix * At(nums, i)
    /\ i' = i + 1
    /\ nums' = InputAfterStore(nums, result')
    /\ UNCHANGED <<pc, ptrVars, target, suffix, seen, zeroVars, reference,
                   webVars>>

ProductForwardExit ==
    /\ pc = "product_forward"
    /\ ~(i < Len(nums))
    /\ suffix' = 1
    /\ i' = BackwardStart(Len(nums))
    /\ pc' = "product_backward"
    /\ UNCHANGED <<ptrVars, nums, target, prefix, seen, zeroVars, result, reference,
                   webVars>>

ProductBackward ==
    /\ pc = "product_backward"
    /\ i > -1
    /\ result' = [result EXCEPT ![i + 1] = BackwardEntry(@, suffix)]
    /\ suffix' = suffix * At(nums, i)
    /\ i' = i - 1
    /\ nums' = InputAfterStore(nums, result')
    /\ UNCHANGED <<pc, ptrVars, target, prefix, seen, zeroVars, reference,
                   webVars>>

ProductReturn ==
    /\ pc = "product_backward"
    /\ ~(i > -1)
    /\ pc' = "product_ref"
    /\ UNCHANGED <<ptrVars, numVars, i, zeroVars, result, reference, webVars>>

ProductWithArrays ==
    /\ pc = "product_ref"
    /\ reference' = product_except_self_with_arrays(nums)
    /\ pc' = "done"
    /\ UNCHANGED <<ptrVars, numVars, i, zeroVars, result, webVars>>

NextProduct ==
    \/ ProductEnter
    \/ ProductForward
    \/ ProductForwardExit
    \/ ProductBackward
    \/ ProductReturn
    \/ ProductWithArrays

SpecProduct == InitProduct /\ [][NextProduct]_vars

----------------------------------------------------------------------------
(* C3: for every integer list of length >= 2, zeros and negatives allowed,  *)
(* product_except_self returns a list as long as nums whose entry at every  *)
(* index is the product of the elements of nums at all the other indices.   *)

RECURSIVE ProductAt(_, _)
ProductAt(ns, S) ==
    IF S = {} THEN 1
    ELSE LET k == CHOOSE k \in S : TRUE
         IN  ns[k] * ProductAt(ns, S \ {k})

ProductReturned == pc \in {"product_ref", "done"}

ProductExceptSelfCorrect ==
    (ProductReturned /\ Len(nums) >= 2) =>
        /\ Len(result) = Len(nums)
        /\ \A k \in 1..Len(nums) :
               result[k] = ProductAt(nums, (1..Len(nums)) \ {k})

ProductMixedSignsWitness ==
    /\ ProductReturned
    /\ Len(nums) = 4
    /\ \E k \in 1..4 : nums[k] < 0
    /\ \E k \in 1..4 : nums[k] = 0
    /\ \E k \in 1..4 : result[k] < 0

(* C7: for every integer list of length >= 2: at every index i where no     *)
(* other element is zero, result[i] * nums[i] is the product of all of      *)
(* nums; and when exactly one element is zero, the result is non-zero at    *)
(* that element's index and zero at every other index.                      *)

ZeroPositions(ns) == {k \in 1..Len(ns) : ns[k] = 0}

ProductZeroHandling ==
    (ProductReturned /\ Len(nums) >= 2) =>
        /\ \A k \in 1..Len(nums) :
               ZeroPositions(nums) \subseteq {k} =>
                   result[k] * nums[k] = ProductAt(nums, 1..Len(nums))
        /\ \A z \in 1..Len(nums) :
               ZeroPositions(nums) = {z} =>
                   /\ result[z] # 0
                   /\ \A k \in (1..Len(nums)) \ {z} : result[k] = 0

ProductSingleZeroWitness ==
    /\ ProductReturned
    /\ Len(nums) >= 3
    /\ Cardinality(ZeroPositions(nums)) = 1
    /\ \E z \in ZeroPositions(nums) : result[z] > 1

(* C10: for every integer list, the empty list and one-element lists        *)
(* included, product_except_self and product_except_self_with_arrays        *)
(* return equal lists.                                                      *)

ProductMatchesWithArrays == pc = "done" => result = reference

ProductShortListWitness ==
    /\ pc = "done"
    /\ Len(nums) = 1
    /\ result = <<1>>
    /\ reference = <<1>>

----------------------------------------------------------------------------
(* move_zeroes.py, driven as test_move_zeroes drives it: three copies of    *)
(* one list, move_zeroes on the first, move_zeroes_swap on the second,      *)
(* move_zeroes_optimal on the third.                                        *)

\* Variant: a negative number taken for a zero
IsPositive(x) == x > 0

IsNonZero(x) == x # 0

\* Variant: the write position moved by two
AdvanceTwice(w) == w + 2

\* write_pos += 1 after a non-zero was placed
Advance(w) == w + 1

\* Variant: zero fill starting one position late
FillFromNext(w) == w + 1

FillFrom(w) == w

\* Variant: a copy in place of the swap
SwappedKeepsRead(ns, w, r) == [ns EXCEPT ![w + 1] = At(ns, r)]

Swapped(ns, w, r) == [ns EXCEPT ![w + 1] = At(ns, r), ![r + 1] = At(ns, w)]

\* move_zeroes as a function of the list: the scan, then the zero fill
RECURSIVE ScanFrom(_, _, _)
ScanFrom(ns, r, w) ==
    IF ~(r < Len(ns)) THEN <<ns, w>>
    ELSE IF IsNonZero(At(ns, r))
         THEN ScanFrom([ns EXCEPT ![w + 1] = At(ns, r)], r + 1, Advance(w))
         ELSE ScanFrom(ns, r + 1, w)

RECURSIVE ZeroFill(_, _)
ZeroFill(ns, k) ==
    IF ~(k < Len(ns)) THEN ns ELSE ZeroFill([ns EXCEPT ![k + 1] = 0], k + 1)

move_zeroes(ns) ==
    LET scanned == ScanFrom(ns, 0, 0)
    IN  ZeroFill(scanned[1], FillFrom(scanned[2]))

InitMoveZeroes ==
    /\ pc = "move_zeroes"
    /\ test_case \in IntLists
    /\ nums1 = test_case /\ nums2 = test_case /\ nums3 = test_case
    /\ read_pos = 0 /\ write_pos = 0 /\ i = 0
    /\ result = 0 /\ reference = 0
    /\ ptrIdle /\ numIdle /\ webIdle

MoveZeroesEnter ==
    /\ pc = "move_zeroes"
    /\ write_pos' = 0
    /\ read_pos' = 0
    /\ pc' = "move_zeroes_scan"
    /\ UNCHANGED <<ptrVars, numVars, i, test_case, nums1, nums2, nums3,
                   result, reference,
                   webVars>>

MoveZeroesScan ==
    /\ pc = "move_zeroes_scan"
    /\ read_pos < Len(nums1)
    /\ IF IsNonZero(At(nums1, read_pos))
       THEN /\ nums1' = [nums1 EXCEPT ![write_pos + 1] = At(nums1, read_pos)]
            /\ write_pos' = Advance(write_pos)
       ELSE UNCHANGED <<nums1, write_pos>>
    /\ read_pos' = read_pos + 1
    /\ UNCHANGED <<pc, ptrVars, numVars, i, test_case, nums2, nums3,
                   result, reference,
                   webVars>>

MoveZeroesScanExit ==
    /\ pc = "move_zeroes_scan"
    /\ ~(read_pos < Len(nums1))
    /\ i' = FillFrom(write_pos)
    /\ pc' = "move_zeroes_fill"
    /\ UNCHANGED <<ptrVars, numVars, zeroVars, result, reference, webVars>>

MoveZeroesFill ==
    /\ pc = "move_zeroes_fill"
    /\ i < Len(nums1)
    /\ nums1' = [nums1 EXCEPT ![i + 1] = 0]
    /\ i' = i + 1
    /\ UNCHANGED <<pc, ptrVars, numVars, test_case, nums2, nums3, read_pos,
                   write_pos, result, reference,
                   webVars>>

MoveZeroesReturn ==
    /\ pc = "move_zeroes_fill"
    /\ ~(i < Len(nums1))
    /\ pc' = "move_zeroes_swap"
    /\ UNCHANGED <<ptrVars, numVars, i, zeroVars, result, reference, webVars>>

SwapEnter ==
    /\ pc = "move_zeroes_swap"
    /\ write_pos' = 0
    /\ read_pos' = 0
    /\ pc' = "move_zeroes_swap_scan"
    /\ UNCHANGED <<ptrVars, numVars, i, test_case, nums1, nums2, nums3,
                   result, reference,
                   webVars>>

SwapScan ==
    /\ pc = "move_zeroes_swap_scan"
    /\ read_pos < Len(nums2)
    /\ IF IsNonZero(At(nums2, read_pos))
       THEN /\ IF read_pos # write_pos
               THEN nums2' = Swapped(nums2, write_pos, read_pos)
               ELSE UNCHANGED nums2
            /\ write_pos' = Advance(write_pos)
       ELSE UNCHANGED <<nums2, write_pos>>
    /\ read_pos' = read_pos + 1
    /\ UNCHANGED <<pc, ptrVars, numVars, i, test_case, nums1, nums3,
                   result, reference,
                   webVars>>

SwapReturn ==
    /\ pc = "move_zeroes_swap_scan"
    /\ ~(read_pos < Len(nums2))
    /\ pc' = "move_zeroes_optimal"
    /\ UNCHANGED <<ptrVars, numVars, i, zeroVars, result, reference, webVars>>

OptimalEnter ==
    /\ pc = "move_zeroes_optimal"
    /\ write_pos' = 0
    /\ read_pos' = 0
    /\ pc' = "move_zeroes_optimal_scan"
    /\ UNCHANGED <<ptrVars, numVars, i, test_case, nums1, nums2, nums3,
                   result, reference,
                   webVars>>

OptimalScan ==
    /\ pc = "move_zeroes_optimal_scan"
    /\ read_pos < Len(nums3)
    /\ LET num == At(nums3, read_pos)
       IN  IF IsNonZero(num)
           THEN /\ nums3' = [nums3 EXCEPT ![write_pos + 1] = num]
                /\ write_pos' = Advance(write_pos)
           ELSE UNCHANGED <<nums3, write_pos>>
    /\ read_pos' = read_pos + 1
    /\ UNCHANGED <<pc, ptrVars, numVars, i, test_case, nums1, nums2,
                   result, reference,
                   webVars>>

OptimalScanExit ==
    /\ pc = "move_zeroes_optimal_scan"
    /\ ~(read_pos < Len(nums3))
    /\ pc' = "move_zeroes_optimal_fill"
    /\ UNCHANGED <<ptrVars, numVars, i, zeroVars, result, reference, webVars>>

OptimalFill ==
    /\ pc = "move_zeroes_optimal_fill"
    /\ write_pos < Len(nums3)
    /\ nums3' = [nums3 EXCEPT ![write_pos + 1] = 0]
    /\ write_pos' = write_pos + 1
    /\ UNCHANGED <<pc, ptrVars, numVars, i, test_case, nums1, nums2, read_pos,
                   result, reference,
                   webVars>>

OptimalReturn ==
    /\ pc = "move_zeroes_optimal_fill"
    /\ ~(write_pos < Len(nums3))
    /\ pc' = "done"
    /\ UNCHANGED <<ptrVars, numVars, i, zeroVars, result, reference, webVars>>

NextMoveZeroes ==
    \/ MoveZeroesEnter
    \/ MoveZeroesScan
    \/ MoveZeroesScanExit
    \/ MoveZeroesFill
    \/ MoveZeroesReturn
    \/ SwapEnter
    \/ SwapScan
    \/ SwapReturn
    \/ OptimalEnter
    \/ OptimalScan
    \/ OptimalScanExit
    \/ OptimalFill
    \/ OptimalReturn

SpecMoveZeroes == InitMoveZeroes /\ [][NextMoveZeroes]_vars

----------------------------------------------------------------------------
(* C4: for every integer list of length >= 1, once move_zeroes has returned *)
(* the list has its original length, is a permutation of its original       *)
(* contents, keeps its non-zero elements in their original relative order   *)
(* and has every zero after every non-zero element: it is the original's    *)
(* non-zero subsequence followed by as many zeros as the original had.      *)

MoveZeroesReturned ==
    pc \notin {"move_zeroes", "move_zeroes_scan", "move_zeroes_fill"}

Occurrences(ns, v) == Cardinality({k \in 1..Len(ns) : ns[k] = v})

IsPermutation(a, b) ==
    /\ Len(a) = Len(b)
    /\ \A k \in 1..Len(a) : Occurrences(a, a[k]) = Occurrences(b, a[k])

NonZeros(ns) == SelectSeq(ns, LAMBDA x : x # 0)

ZerosTrail(ns) ==
    \A j, k \in 1..Len(ns) : (ns[j] = 0 /\ ns[k] # 0) => k < j

Compacted(ns) ==
    NonZeros(ns) \o [k \in 1..Occurrences(ns, 0) |-> 0]

MoveZeroesContract ==
    (MoveZeroesReturned /\ Len(test_case) >= 1) =>
        /\ Len(nums1) = Len(test_case)
        /\ IsPermutation(nums1, test_case)
        /\ NonZeros(nums1) = NonZeros(test_case)
        /\ ZerosTrail(nums1)
        /\ nums1 = Compacted(test_case)

MoveZeroesInterleavedWitness ==
    /\ pc = "move_zeroes_swap"
    /\ Len(test_case) = 4
    /\ test_case[1] = 0 /\ test_case[2] < 0 /\ test_case[3] = 0 /\ test_case[4] > 0
    /\ nums1 = <<test_case[2], test_case[4], 0, 0>>

(* C9: move_zeroes, move_zeroes_swap and move_zeroes_optimal, each applied  *)
(* to its own copy of the same integer list, leave the three copies equal.  *)

MoveZeroesVariantsAgree == pc = "done" => (nums1 = nums2 /\ nums2 = nums3)

MoveZeroesVariantsWitness ==
    /\ pc = "done"
    /\ Len(test_case) = 4
    /\ test_case[1] = 0 /\ test_case[4] # 0
    /\ nums1 # test_case
    /\ nums2 = nums1 /\ nums3 = nums1

----------------------------------------------------------------------------
(* two_sum.py *)

Targets == (-2 * MaxNeg)..(2 * MaxVal)

\* Variant: operands of the subtraction exchanged
ComplementReversed(t, num) == num - t

Complement(t, num) == t - num

\* Variant: key and value exchanged
StoreSwapped(d, k, v) == [x \in DOMAIN d \cup {v} |-> IF x = v THEN k ELSE d[x]]

Store(d, k, v) == [x \in DOMAIN d \cup {k} |-> IF x = k THEN v ELSE d[x]]

\* Variant: the current number stored before the mapping is consulted
ConsultedAfterStore(d, num, p) == Store(d, num, p)

Consulted(d, num, p) == d

Subscript(d, k) == IF k \in DOMAIN d THEN <<d[k]>> ELSE <<>>

RECURSIVE TwoSumBruteInner(_, _, _, _)
TwoSumBruteInner(ns, t, p, q) ==
    IF q >= Len(ns) THEN <<>>
    ELSE IF At(ns, p) + At(ns, q) = t THEN <<p, q>>
    ELSE TwoSumBruteInner(ns, t, p, q + 1)

RECURSIVE TwoSumBruteOuter(_, _, _)
TwoSumBruteOuter(ns, t, p) ==
    IF p >= Len(ns) THEN <<>>
    ELSE LET found == TwoSumBruteInner(ns, t, p, p + 1)
         IN  IF found # <<>> THEN found ELSE TwoSumBruteOuter(ns, t, p + 1)

two_sum_brute_force(ns, t) == TwoSumBruteOuter(ns, t, 0)

InitTwoSum ==
    /\ pc = "two_sum"
    /\ nums \in IntLists
    /\ target \in Targets
    /\ prefix = 1 /\ suffix = 1 /\ seen = EmptyDict /\ i = 0
    /\ result = <<>> /\ reference = <<>>
    /\ ptrIdle /\ zeroIdle /\ webIdle

TwoSumEnter ==
    /\ pc = "two_sum"
    /\ seen' = EmptyDict
    /\ i' = 0
    /\ pc' = "two_sum_loop"
    /\ UNCHANGED <<ptrVars, nums, target, prefix, suffix, zeroVars, result,
                   reference,
                   webVars>>

TwoSumIter ==
    /\ pc = "two_sum_loop"
    /\ i < Len(nums)
    /\ LET num == At(nums, i)
           complement == Complement(target, num)
           dict == Consulted(seen, num, i)
           found == Subscript(dict, complement)
       IN  IF complement \in DOMAIN dict
           THEN /\ IF found = <<>>
                   THEN pc' = "KeyError" /\ UNCHANGED result
                   ELSE pc' = "two_sum_ref" /\ result' = <<found[1], i>>
                /\ UNCHANGED <<seen, i>>
           ELSE /\ seen' = Store(seen, num, i)
                /\ i' = i + 1
                /\ UNCHANGED <<pc, result>>
    /\ UNCHANGED <<ptrVars, nums, target, prefix, suffix, zeroVars, reference,
                   webVars>>

TwoSumNotFound ==
    /\ pc = "two_sum_loop"
    /\ ~(i < Len(nums))
    /\ result' = <<>>
    /\ pc' = "two_sum_ref"
    /\ UNCHANGED <<ptrVars, numVars, i, zeroVars, reference, webVars>>

TwoSumBruteForce ==
    /\ pc = "two_sum_ref"
    /\ reference' = two_sum_brute_force(nums, target)
    /\ pc' = "done"
    /\ UNCHANGED <<ptrVars, numVars, i, zeroVars, result, webVars>>

NextTwoSum ==
    \/ TwoSumEnter
    \/ TwoSumIter
    \/ TwoSumNotFound
    \/ TwoSumBruteForce

SpecTwoSum == InitTwoSum /\ [][NextTwoSum]_vars

----------------------------------------------------------------------------
(* C5: whenever two_sum returns a non-empty list, it is a two-element list  *)
(* of valid positions of nums, the two positions differ and the elements at *)
(* them sum to target; one element is never used twice.                     *)

TwoSumReturned == pc \in {"two_sum_ref", "done"}

Positions(ns) == 0..(Len(ns) - 1)

TwoSumResultValid ==
    (TwoSumReturned /\ result # <<>>) =>
        /\ Len(result) = 2
        /\ result[1] \in Positions(nums)
        /\ result[2] \in Positions(nums)
        /\ result[1] # result[2]
        /\ At(nums, result[1]) + At(nums, result[2]) = target

TwoSumHalfTargetWitness ==
    /\ TwoSumReturned
    /\ Len(nums) = 3
    /\ target = 2 * nums[1]
    /\ nums[2] # nums[1]
    /\ nums[3] # nums[1]
    /\ result = <<1, 2>>

(* C6: for every integer list, the empty list and one-element lists         *)
(* included, and every target, two_sum runs to its return without a failed  *)
(* lookup; it returns the empty list exactly when no two distinct positions *)
(* i < j have nums[i] + nums[j] = target, and a two-element list otherwise. *)

PairExists(ns, t) ==
    \E p, q \in Positions(ns) : p < q /\ At(ns, p) + At(ns, q) = t

TwoSumEmptyIffNoPair ==
    /\ pc # "KeyError"
    /\ TwoSumReturned =>
           /\ (result = <<>>) <=> ~PairExists(nums, target)
           /\ result # <<>> => Len(result) = 2

TwoSumNoPairWitness ==
    /\ TwoSumReturned
    /\ Len(nums) = 1
    /\ target = 2 * nums[1]
    /\ result = <<>>

----------------------------------------------------------------------------
(* C11: for every list of non-negative heights, every iteration of trap     *)
(* adds an amount >= 0 to water (left_max - height[left] on the left        *)
(* branch, right_max - height[right] on the right branch), so water never   *)
(* decreases during the scan and the returned total is never negative.      *)

TrapAmountNonNegative ==
    /\ [][(pc = "trap_loop" /\ pc' = "trap_loop" /\ NonNegative(height)) =>
             /\ left' # left =>
                    /\ left_max' - At(height, left) >= 0
                    /\ water' = water + (left_max' - At(height, left))
             /\ right' # right =>
                    /\ right_max' - At(height, right) >= 0
                    /\ water' = water + (right_max' - At(height, right))
             /\ water' >= water]_vars
    /\ []((pc \in {"trap_ref", "done"} /\ NonNegative(height)) => result >= 0)

TrapBothBranchesWitness ==
    /\ pc = "trap_loop"
    /\ NonNegative(height)
    /\ left = right
    /\ left > 0
    /\ right < Len(height) - 1
    /\ water > 0

----------------------------------------------------------------------------
(* C12: for every list of length 0 or 1, max_area returns 0 from its guard: *)
(* it never reaches the loop, the only place where elements are read, and   *)
(* it ends in a return, not in an error.                                    *)

MaxAreaShortReturnsZero ==
    Len(height) < 2 =>
        /\ pc \in {"max_area", "max_area_ref", "done"}
        /\ pc \in {"max_area_ref", "done"} => result = 0
        /\ left = 0 /\ right = 0 /\ max_area_value = 0

MaxAreaSingleLineWitness ==
    /\ pc = "max_area_ref"
    /\ Len(height) = 1
    /\ height[1] > 0
    /\ result = 0

----------------------------------------------------------------------------
(* C13: for every list of length 0, 1 or 2, whatever its elements (negative *)
(* ones included), trap and trap_dp both return 0 and neither fails.        *)

TrapShortReturnsZero ==
    Len(height) < 3 =>
        /\ pc \in {"trap", "trap_ref", "done"}
        /\ pc \in {"trap_ref", "done"} => result = 0
        /\ pc = "done" => reference = 0

TrapShortNegativeWitness ==
    /\ pc = "done"
    /\ Len(height) = 2
    /\ height[1] < 0
    /\ height[2] > 0
    /\ result = 0
    /\ reference = 0

----------------------------------------------------------------------------
(* C14: two_sum, max_area, trap and product_except_self leave their input   *)
(* list with the length and elements it had before the call;                *)
(* product_except_self returns a list of its own, not the input list;       *)
(* move_zeroes writes only into the list it was given and returns nothing.  *)

InMoveZeroes == pc \in {"move_zeroes", "move_zeroes_scan", "move_zeroes_fill"}

InProduct == pc \in {"product_except_self", "product_forward", "product_backward"}

InputsLeftAlone ==
    [][/\ height' = height
       /\ nums' = nums
       /\ target' = target
       /\ InProduct /\ result' # result => nums' = nums /\ Len(result') = Len(nums)
       /\ InMoveZeroes =>
              /\ test_case' = test_case
              /\ nums2' = nums2
              /\ nums3' = nums3
              /\ result' = result
              /\ Len(nums1') = Len(nums1)]_vars

ProductResultOwnListWitness ==
    /\ pc = "product_ref"
    /\ Len(nums) = 3
    /\ result # nums
    /\ result # <<1, 1, 1>>
    /\ nums # <<1, 1, 1>>

----------------------------------------------------------------------------
(* website.py and openai_utils.py                                           *)
(*                                                                          *)
(* A string is the sequence of its tokens: words, single spaces and         *)
(* punctuation marks; a character outside ASCII is the token that names its *)
(* code point.  An f-string is the concatenation of its parts.              *)

MaxElements == 2

IsWhitespace(t) == t \in {" ", "\n"}

RECURSIVE lstrip(_)
lstrip(s) == IF s # <<>> /\ IsWhitespace(Head(s)) THEN lstrip(Tail(s)) ELSE s

RECURSIVE rstrip(_)
rstrip(s) ==
    IF s # <<>> /\ IsWhitespace(s[Len(s)])
    THEN rstrip(SubSeq(s, 1, Len(s) - 1))
    ELSE s

strip(s) == rstrip(lstrip(s))

RECURSIVE join(_, _)
join(sep, ss) ==
    IF ss = <<>> THEN <<>>
    ELSE IF Len(ss) = 1 THEN ss[1]
    ELSE ss[1] \o <<sep>> \o join(sep, Tail(ss))

(* Exceptions: the class and the message the exception was built with *)

Exc(type, args) == [type |-> type, args |-> args]

str(e) == e.args

RequestException == {"RequestException", "Timeout", "ConnectionError", "HTTPError"}

(* The environment: what the request and the completion call do *)

Urls == {<<"https://example.com">>, <<"https://slow-site.com">>}

GetOutcomes ==
    {NoException,
     Exc("Timeout", <<"Connection", " ", "timed", " ", "out">>),
     Exc("ConnectionError", <<"Name", " ", "not", " ", "resolved">>),
     Exc("UnicodeError", <<"label", " ", "too", " ", "long">>)}

StatusOutcomes ==
    {NoException, Exc("HTTPError", <<"404", " ", "Client", " ", "Error">>)}

CreateOutcomes ==
    {NoException,
     Exc("Exception", <<"API", " ", "rate", " ", "limit", " ", "exceeded">>),
     Exc("APIConnectionError", <<"Connection", " ", "error.">>)}

Completions ==
    {<<"This", " ", "is", " ", "a", " ", "test", " ", "summary.">>,
     <<" ", "Summary", "\n">>,
     <<>>}

Tags == {"title", "p", "script"}

Strings == {<<>>, <<" ", "Test", " ">>, <<"Content">>}

Elements == [tag : Tags, string : Strings]

Pages == UNION {[1..n -> Elements] : n \in 0..MaxElements}

(* Website.__init__ *)

\* Variant: the cause is left out of the message
FetchErrorWithoutCause(u, e) == <<"Failed", " ", "to", " ", "fetch", " ">> \o u

FetchError(u, e) ==
    <<"Failed", " ", "to", " ", "fetch", " ">> \o u \o <<":", " ">> \o str(e)

Titles(c) == SelectSeq(c, LAMBDA x : x.tag = "title")

Title(c) ==
    IF Titles(c) # <<>> /\ Titles(c)[1].string # <<>>
    THEN strip(Titles(c)[1].string)
    ELSE <<"No", " ", "title">>

Decomposed(c) ==
    SelectSeq(c, LAMBDA x : x.tag \notin {"script", "style", "img", "input"})

get_text(c) ==
    join("\n", SelectSeq([k \in 1..Len(c) |-> strip(c[k].string)],
                         LAMBDA x : x # <<>>))

(* openai_utils.py *)

build_prompt(website) ==
    <<[role |-> "system",
       content |-> <<"You are a helpful assistant that summarizes websites.">>],
      [role |-> "user",
       content |-> <<"You are looking at a website titled '">>
                   \o website["title"]
                   \o <<"'.\n",
                        "The contents of this website are as follows. Provide a short summary in markdown. ",
                        "If there is news, summarize it too.\n\n">>
                   \o website["text"]]>>

\* The two characters the message of summarize_url starts with
ErrorMark == <<"U+00E2", "U+0152">>

SummarizeError(u, e) ==
    ErrorMark \o <<" ", "Error", " ", "summarizing", " ">> \o u
              \o <<":", " ">> \o str(e)

InitWeb ==
    /\ pc \in {"Website", "summarize_url"}
    /\ url \in Urls
    /\ get_raises \in GetOutcomes
    /\ status_raises \in StatusOutcomes
    /\ content \in Pages
    /\ create_raises \in CreateOutcomes
    /\ completion \in Completions
    /\ caller = "test"
    /\ self = EmptyDict /\ site = EmptyDict
    /\ raised = NoException
    /\ create_calls = <<>>
    /\ result = <<>> /\ reference = <<>>
    /\ ptrIdle /\ numIdle /\ zeroIdle /\ i = 0

SummarizeUrlCall ==
    /\ pc = "summarize_url"
    /\ caller' = "summarize_url"
    /\ pc' = "Website"
    /\ UNCHANGED <<ptrVars, numVars, i, zeroVars, result, reference, envVars,
                   self, site, raised, create_calls>>

WebsiteFetch ==
    /\ pc = "Website"
    /\ self' = [a \in {"url"} |-> url]
    /\ LET e == IF get_raises # NoException THEN get_raises ELSE status_raises
       IN  IF e # NoException
           THEN /\ raised' = IF e.type \in RequestException
                             THEN Exc("RuntimeError", FetchError(url, e))
                             ELSE e
                /\ pc' = IF caller = "summarize_url"
                         THEN "summarize_url_except"
                         ELSE "done"
           ELSE /\ pc' = "Website_parse"
                /\ UNCHANGED raised
    /\ UNCHANGED <<ptrVars, numVars, i, zeroVars, result, reference, envVars,
                   caller, site, create_calls>>

WebsiteParse ==
    /\ pc = "Website_parse"
    /\ self' = [a \in {"url", "title", "text"} |->
                   CASE a = "url" -> url
                     [] a = "title" -> Title(content)
                     [] a = "text" -> get_text(Decomposed(content))]
    /\ site' = self'
    /\ pc' = IF caller = "summarize_url" THEN "summarize_url_create" ELSE "done"
    /\ UNCHANGED <<ptrVars, numVars, i, zeroVars, result, reference, envVars,
                   caller, raised, create_calls>>

SummarizeUrlCreate ==
    /\ pc = "summarize_url_create"
    /\ create_calls' = Append(create_calls,
                              [model |-> <<"gpt-4o">>,
                               messages |-> build_prompt(site)])
    /\ IF create_raises # NoException
       THEN /\ raised' = create_raises
            /\ pc' = "summarize_url_except"
            /\ UNCHANGED result
       ELSE /\ result' = strip(completion)
            /\ pc' = "done"
            /\ UNCHANGED raised
    /\ UNCHANGED <<ptrVars, numVars, i, zeroVars, reference, envVars,
                   caller, self, site>>

SummarizeUrlExcept ==
    /\ pc = "summarize_url_except"
    /\ result' = SummarizeError(url, raised)
    /\ raised' = NoException
    /\ pc' = "done"
    /\ UNCHANGED <<ptrVars, numVars, i, zeroVars, reference, envVars,
                   caller, self, site, create_calls>>

NextWeb ==
    \/ SummarizeUrlCall
    \/ WebsiteFetch
    \/ WebsiteParse
    \/ SummarizeUrlCreate
    \/ SummarizeUrlExcept

SpecWeb == InitWeb /\ [][NextWeb]_vars

(* s contains sub as a contiguous part *)
Contains(s, sub) ==
    \E k \in 0..(Len(s) - Len(sub)) : SubSeq(s, k + 1, k + Len(sub)) = sub

\* The exception the request of this environment ends with, if any
Cause == IF get_raises # NoException THEN get_raises ELSE status_raises

FetchFails == Cause.type \in RequestException

(* C15: when the request made while constructing Website(url) fails with a  *)
(* request exception, from the get call or from raise_for_status, the       *)
(* constructor raises RuntimeError whose message contains "Failed to        *)
(* fetch", the url and the text of the cause, and no Website object with    *)
(* title and text is produced.                                              *)

WebsiteRaisesRuntimeError ==
    FetchFails =>
        /\ pc \notin {"Website_parse", "summarize_url_create"}
        /\ DOMAIN site = {}
        /\ DOMAIN self \subseteq {"url"}
        /\ (pc = "summarize_url_except" \/ (pc = "done" /\ caller = "test")) =>
               /\ raised.type = "RuntimeError"
               /\ Contains(str(raised), <<"Failed", " ", "to", " ", "fetch">>)
               /\ Contains(str(raised), url)
               /\ Contains(str(raised), str(Cause))

WebsiteStatusErrorWitness ==
    /\ pc = "done"
    /\ caller = "test"
    /\ get_raises = NoException
    /\ status_raises.type = "HTTPError"
    /\ raised.type = "RuntimeError"
    /\ DOMAIN self = {"url"}

(* C16: summarize_url(url) never propagates an exception: when fetching the *)
(* website or the chat-completion call raises, it returns a string that     *)
(* contains the cross mark U+274C followed by " Error summarizing" and the  *)
(* exception's message; when both succeed it returns the stripped content   *)
(* of the first choice, having called the completion API exactly once with  *)
(* model "gpt-4o".                                                          *)

CrossMark == <<"U+274C">>

\* The exception summarize_url catches in this environment, if any
Caught ==
    IF Cause # NoException
    THEN IF FetchFails THEN Exc("RuntimeError", FetchError(url, Cause)) ELSE Cause
    ELSE create_raises

SummarizeUrlReturns(mark) ==
    (pc = "done" /\ caller = "summarize_url") =>
        /\ raised = NoException
        /\ IF Caught # NoException
           THEN /\ Contains(result, mark \o <<" ", "Error", " ", "summarizing">>)
                /\ Contains(result, str(Caught))
           ELSE /\ result = strip(completion)
                /\ Len(create_calls) = 1
                /\ create_calls[1].model = <<"gpt-4o">>

SummarizeUrlReturnsCrossMark == SummarizeUrlReturns(CrossMark)

----------------------------------------------------------------------------
(* C17: at every loop head of max_area and on loop exit, max_area_value is  *)
(* at least (j - i) * min(height[i], height[j]) for every discarded pair    *)
(* i < j, that is with i < left or j > right; in particular for every pair  *)
(* wider than the current window right - left.                              *)

Discarded(p) == p[1] < left \/ p[2] > right

MaxAreaDiscardedCovered ==
    pc \in {"max_area_loop", "max_area_ref", "done"} /\ Len(height) >= 2 =>
        /\ \A p \in Pairs(height) :
               Discarded(p) => max_area_value >= current_area(height, p[1], p[2])
        /\ \A p \in Pairs(height) :
               p[2] - p[1] > right - left =>
                   /\ Discarded(p)
                   /\ max_area_value >= current_area(height, p[1], p[2])

MaxAreaBothPointersMovedWitness ==
    /\ pc = "max_area_loop"
    /\ Len(height) = 4
    /\ left = 1
    /\ right = 2
    /\ max_area_value > current_area(height, 0, 3)
    /\ max_area_value > current_area(height, 1, 2)

----------------------------------------------------------------------------
(* C18: in trap on non-negative heights every processed position adds       *)
(* exactly its true trapped water: the amount added on the left branch is   *)
(* min(max(height[0..left]), max(height[left..n-1])) - height[left], and on *)
(* the right branch the same expression at right.                           *)

TrapAddsTrueWater ==
    [][(pc = "trap_loop" /\ pc' = "trap_loop" /\ NonNegative(height)) =>
          /\ left' # left =>
                 /\ water' - water = TrappedAt(height, left)
                 /\ left_max' = SetMax({At(height, k) : k \in 0..left})
                 /\ left_max' <= SetMax({At(height, k) : k \in left..Len(height) - 1})
          /\ right' # right =>
                 /\ water' - water = TrappedAt(height, right)
                 /\ right_max' = SetMax({At(height, k) : k \in right..Len(height) - 1})
                 /\ right_max' <= SetMax({At(height, k) : k \in 0..right})]_vars

TrapTwoValleysWitness ==
    /\ pc = "trap_loop"
    /\ NonNegative(height)
    /\ Len(height) = 4
    /\ left = right
    /\ water = 2
    /\ water = TrappedUpTo(height, 4)
    /\ TrappedAt(height, 1) = 1
    /\ TrappedAt(height, 2) = 1

----------------------------------------------------------------------------
(* C19: for every list of non-negative heights, max_area, which moves the   *)
(* right pointer when height[left] = height[right], returns the same value  *)
(* as the variant that moves the left pointer on such a tie.                *)

RECURSIVE MaxAreaTieLeftFrom(_, _, _, _)
MaxAreaTieLeftFrom(h, l, r, m) ==
    IF ~(l < r) THEN m
    ELSE IF At(h, l) <= At(h, r)
         THEN MaxAreaTieLeftFrom(h, l + 1, r, Max(m, current_area(h, l, r)))
         ELSE MaxAreaTieLeftFrom(h, l, r - 1, Max(m, current_area(h, l, r)))

max_area_tie_left(h) ==
    IF Len(h) = 0 \/ Len(h) < 2 THEN 0
    ELSE MaxAreaTieLeftFrom(h, 0, Len(h) - 1, 0)

MaxAreaTieBreakIrrelevant ==
    pc \in {"max_area_ref", "done"} => result = max_area_tie_left(height)

MaxAreaTieWitness ==
    /\ pc = "done"
    /\ Len(height) = 4
    /\ height[1] = height[4]
    /\ height[1] > 0
    /\ height[2] > height[3]
    /\ height[2] > height[1]
    /\ result = max_area_tie_left(height)

----------------------------------------------------------------------------
(* C20: when two_sum begins processing position k without having returned,  *)
(* the keys of seen are exactly the values nums[0..k-1], and each key v     *)
(* maps to a position p < k with nums[p] = v.                               *)

TwoSumSeenInvariant ==
    pc = "two_sum_loop" =>
        /\ i \in 0..Len(nums)
        /\ DOMAIN seen = {At(nums, p) : p \in 0..(i - 1)}
        /\ \A v \in DOMAIN seen :
               /\ seen[v] \in 0..(i - 1)
               /\ At(nums, seen[v]) = v

TwoSumOverwrittenKeyWitness ==
    /\ pc = "two_sum_loop"
    /\ Len(nums) = 4
    /\ i = 3
    /\ nums[1] = nums[3]
    /\ nums[2] # nums[1]
    /\ seen[nums[1]] = 2
    /\ Cardinality(DOMAIN seen) = 2

----------------------------------------------------------------------------
(* C21: two_sum returns the first complement found by the left-to-right     *)
(* scan, earlier index first: when it returns [i, j] then i < j and no pair *)
(* a < b < j has nums[a] + nums[b] = target, also when several valid pairs  *)
(* exist.                                                                   *)

SumsToTarget(ns, t) == {p \in Pairs(ns) : At(ns, p[1]) + At(ns, p[2]) = t}

TwoSumFirstComplement ==
    (TwoSumReturned /\ result # <<>>) =>
        /\ result[1] < result[2]
        /\ \A p \in SumsToTarget(nums, target) : ~(p[2] < result[2])

TwoSumSeveralPairsWitness ==
    /\ pc = "done"
    /\ Len(nums) = 4
    /\ result = <<0, 1>>
    /\ <<2, 3>> \in SumsToTarget(nums, target)
    /\ <<1, 3>> \in SumsToTarget(nums, target)
    /\ At(nums, 0) # At(nums, 1)

----------------------------------------------------------------------------
(* C22: in product_except_self, after the forward pass and before the       *)
(* backward pass result[i] is the product of nums[0..i-1] for every i (1    *)
(* for i = 0); during the backward pass, once index i has been processed    *)
(* result[i] is the product of all elements except index i and suffix is    *)
(* the product of nums[i..n-1].                                             *)

\* Product of the elements at the 0-based positions a..b (1 when a > b)
ProductOfRange(ns, a, b) == ProductAt(ns, (a + 1)..(b + 1))

ProductPassInvariants ==
    /\ pc = "product_forward" =>
           /\ prefix = ProductOfRange(nums, 0, i - 1)
           /\ \A k \in 0..(i - 1) : At(result, k) = ProductOfRange(nums, 0, k - 1)
    /\ pc = "product_backward" =>
           /\ \A k \in 0..i : At(result, k) = ProductOfRange(nums, 0, k - 1)
           /\ \A k \in (i + 1)..(Len(nums) - 1) :
                  At(result, k) = ProductAt(nums, (1..Len(nums)) \ {k + 1})
           /\ suffix = ProductOfRange(nums, i + 1, Len(nums) - 1)

ProductMidBackwardWitness ==
    /\ pc = "product_backward"
    /\ Len(nums) = 4
    /\ i = 1
    /\ \A k \in 1..4 : nums[k] \notin {0, 1}
    /\ nums[4] < 0
    /\ suffix = nums[3] * nums[4]
    /\ result[3] = nums[1] * nums[2] * nums[4]
    /\ result[2] = nums[1]

----------------------------------------------------------------------------
(* C23: at every iteration boundary of the scan in move_zeroes, positions   *)
(* [0, write_pos) of nums hold exactly the non-zero elements of the         *)
(* original list at positions < read_pos, in their original order.          *)

MoveZeroesScanInvariant ==
    pc = "move_zeroes_scan" =>
        /\ write_pos \in 0..read_pos
        /\ read_pos \in 0..Len(nums1)
        /\ Len(nums1) = Len(test_case)
        /\ SubSeq(nums1, 1, write_pos) = NonZeros(SubSeq(test_case, 1, read_pos))

MoveZeroesMidScanWitness ==
    /\ pc = "move_zeroes_scan"
    /\ Len(test_case) = 4
    /\ read_pos = 3
    /\ write_pos = 2
    /\ test_case[1] = 0
    /\ test_case[2] < 0
    /\ test_case[3] > 0
    /\ nums1 # test_case

----------------------------------------------------------------------------
(* C24: the two-pointer loops of max_area and trap terminate for every      *)
(* input of length n >= 2 (n >= 3 for trap): 0 <= left <= right <= n - 1    *)
(* holds throughout, each iteration moves exactly one pointer by one toward *)
(* the other so that right - left decreases by exactly 1, and the loop is   *)
(* left after exactly n - 1 iterations with left = right.                   *)

InitPointers == InitMaxArea \/ InitTrap

NextPointers == NextMaxArea \/ NextTrap

\* A running call always takes its next step
SpecPointersFair ==
    InitPointers /\ [][NextPointers]_vars /\ WF_vars(NextPointers)

InPointerLoop == pc \in {"max_area_loop", "trap_loop"}

PointerLoopsTerminate ==
    /\ [](InPointerLoop =>
              /\ 0 <= left /\ left <= right /\ right <= Len(height) - 1
              /\ Len(height) >= (IF pc = "trap_loop" THEN 3 ELSE 2))
    /\ [][(~InPointerLoop /\ InPointerLoop') =>
              right' - left' = Len(height) - 1]_vars
    /\ [][(InPointerLoop /\ InPointerLoop') =>
              /\ \/ left' = left + 1 /\ right' = right
                 \/ left' = left /\ right' = right - 1
              /\ right' - left' = (right - left) - 1]_vars
    /\ [][(InPointerLoop /\ ~InPointerLoop') => left = right]_vars
    /\ InPointerLoop ~> (pc = "done")
    /\ (pc \in {"max_area", "trap"}) ~> (pc = "done")

MaxAreaPointersMetWitness ==
    /\ pc = "max_area_loop"
    /\ Len(height) = 4
    /\ left = 2
    /\ right = 2

----------------------------------------------------------------------------
(* C25: for every integer sequence that contains two or more zeros, every   *)
(* element of the result of product_except_self is 0.                       *)

ProductTwoZerosAllZero ==
    (ProductReturned /\ Cardinality(ZeroPositions(nums)) >= 2) =>
        /\ Len(result) = Len(nums)
        /\ \A k \in 1..Len(result) : result[k] = 0

ProductTwoZerosWitness ==
    /\ pc = "product_ref"
    /\ Len(nums) = 4
    /\ ZeroPositions(nums) = {1, 3}
    /\ nums[2] < 0
    /\ nums[4] > 1
    /\ result = <<0, 0, 0, 0>>

----------------------------------------------------------------------------
(* C26: when exactly one unordered pair of distinct positions sums to       *)
(* target, two_sum(nums, target) and two_sum_brute_force(nums, target)      *)
(* return the same list [i, j] with i < j.                                  *)

TwoSumMatchesBruteForce ==
    (pc = "done" /\ Cardinality(SumsToTarget(nums, target)) = 1) =>
        /\ result = reference
        /\ Len(result) = 2
        /\ result[1] < result[2]
        /\ SumsToTarget(nums, target) = {<<result[1], result[2]>>}

TwoSumUniquePairWitness ==
    /\ pc = "done"
    /\ Len(nums) = 4
    /\ SumsToTarget(nums, target) = {<<1, 3>>}
    /\ result = <<1, 3>>
    /\ reference = <<1, 3>>

----------------------------------------------------------------------------
(* C27: in trap on non-negative heights the position at which the two       *)
(* pointers meet is never accumulated and its true trapped water is 0: on   *)
(* loop exit height[left] is a maximum of the whole sequence.               *)

\* Water accumulated so far: that of the positions outside left..right
TrappedOutside(h, l, r) ==
    TrappedUpTo(h, l) + (TrappedUpTo(h, Len(h)) - TrappedUpTo(h, r + 1))

TrapLoopLeft ==
    \/ pc = "trap_loop" /\ ~Apart(left, right)
    \/ pc \in {"trap_ref", "done"} /\ Len(height) >= 3

TrapMeetingPositionIsMaximum ==
    /\ (pc = "trap_loop" /\ NonNegative(height)) =>
           water = TrappedOutside(height, left, right)
    /\ (TrapLoopLeft /\ NonNegative(height)) =>
           /\ left = right
           /\ water = TrappedOutside(height, left, left)
           /\ \A k \in 0..(Len(height) - 1) : At(height, k) <= At(height, left)
           /\ TrappedAt(height, left) = 0

TrapMeetsAtPeakWitness ==
    /\ pc = "trap_loop"
    /\ NonNegative(height)
    /\ Len(height) = 4
    /\ left = 2
    /\ right = 2
    /\ At(height, 2) > At(height, 0)
    /\ At(height, 0) > At(height, 1)
    /\ water = At(height, 0) - At(height, 1)

----------------------------------------------------------------------------
(* C28: in the scans of move_zeroes and move_zeroes_optimal, write_pos <=   *)
(* read position holds at every write, so no write overwrites an element    *)
(* not read yet and every value read is the original value at its position, *)
(* although move_zeroes_optimal iterates over the list it is mutating.      *)

Unread(ns, r) == \A k \in r..(Len(ns) - 1) : At(ns, k) = At(test_case, k)

ScanWritesBehindRead ==
    /\ pc = "move_zeroes_scan" =>
           /\ write_pos <= read_pos
           /\ Len(nums1) = Len(test_case)
           /\ Unread(nums1, read_pos)
    /\ pc = "move_zeroes_optimal_scan" =>
           /\ write_pos <= read_pos
           /\ Len(nums3) = Len(test_case)
           /\ Unread(nums3, read_pos)

OptimalMidScanWitness ==
    /\ pc = "move_zeroes_optimal_scan"
    /\ Len(test_case) = 4
    /\ read_pos = 3
    /\ write_pos = 1
    /\ nums3 # test_case
    /\ nums3[4] # 0
    /\ nums3[1] = test_case[3]

----------------------------------------------------------------------------
(* C29: in move_zeroes_swap, at every iteration boundary the positions      *)
(* [write_pos, read_pos) hold only zeros and the list is a permutation of   *)
(* the original; each swap exchanges a non-zero with a zero, nothing is     *)
(* written when read_pos = write_pos (a list without zeros is never         *)
(* written), and no final zero-fill pass is needed.                         *)

InSwapScan == pc = "move_zeroes_swap_scan"

SwapReturned ==
    pc \in {"move_zeroes_optimal", "move_zeroes_optimal_scan",
            "move_zeroes_optimal_fill", "done"}

SwapKeepsZerosBetween ==
    /\ [](InSwapScan =>
              /\ write_pos <= read_pos
              /\ \A k \in write_pos..(read_pos - 1) : At(nums2, k) = 0
              /\ IsPermutation(nums2, test_case))
    /\ [][(InSwapScan /\ nums2' # nums2) =>
              /\ read_pos # write_pos
              /\ At(nums2, read_pos) # 0
              /\ At(nums2, write_pos) = 0
              /\ At(nums2', write_pos) = At(nums2, read_pos)
              /\ At(nums2', read_pos) = 0]_vars
    /\ [][(InSwapScan /\ read_pos = write_pos) => nums2' = nums2]_vars
    /\ []((InSwapScan /\ Occurrences(test_case, 0) = 0) =>
              /\ nums2 = test_case
              /\ read_pos = write_pos)
    /\ [](SwapReturned => nums2 = Compacted(test_case))

SwapTwoZerosBetweenWitness ==
    /\ pc = "move_zeroes_swap_scan"
    /\ Len(test_case) = 4
    /\ read_pos = 3
    /\ write_pos = 1
    /\ nums2 # test_case
    /\ nums2[1] = test_case[3]
    /\ nums2[2] = 0
    /\ nums2[3] = 0
    /\ nums2[4] # 0

----------------------------------------------------------------------------
(* C30: move_zeroes is idempotent: for every integer list, applying         *)
(* move_zeroes a second time to its own output leaves the list unchanged;   *)
(* in particular a list with no zeros, or with all zeros already trailing,  *)
(* is left unchanged.                                                       *)

MoveZeroesIdempotent ==
    MoveZeroesReturned =>
        /\ nums1 = move_zeroes(test_case)
        /\ move_zeroes(nums1) = nums1
        /\ ZerosTrail(test_case) => nums1 = test_case

MoveZeroesSecondRunWitness ==
    /\ pc = "move_zeroes_swap"
    /\ Len(test_case) = 4
    /\ test_case[1] = 0
    /\ test_case[3] = 0
    /\ test_case[4] < 0
    /\ nums1 # test_case
    /\ move_zeroes(nums1) = nums1

----------------------------------------------------------------------------
(* The whole program: one call of any of the functions *)

Init ==
    \/ InitMaxArea
    \/ InitTrap
    \/ InitProduct
    \/ InitMoveZeroes
    \/ InitTwoSum

Next ==
    \/ NextMaxArea
    \/ NextTrap
    \/ NextProduct
    \/ NextMoveZeroes
    \/ NextTwoSum

Spec == Init /\ [][Next]_vars

=============================================================================
